---- MODULE Spec2Model ----
(***************************************************************************)
(* Model of src/app.py: the Streamlit market-intelligence script.          *)
(*                                                                         *)
(* The script is re-executed top to bottom on every user interaction       *)
(* (a "rerun").  Session state (st.session_state) survives between reruns. *)
(* Strings the program computes on are sequences of one-character strings. *)
(* Time is counted in ticks of 1/TicksPerSecond second, so that the float  *)
(* returned by time.time() keeps a fractional part.                        *)
(***************************************************************************)
EXTENDS Integers, Sequences, FiniteSets, TLC

\* ---------------------------------------------------------------- constants
MAX_HEADLINES == 25
DAILY_AI_LIMIT == 20
COOLDOWN_SECONDS == 30

\* ------------------------------------------------------------------- bounds
\* Clock resolution: ticks per second.
TicksPerSecond == 2
\* Length of a calendar day of the model's clock, in seconds (long enough
\* for DAILY_AI_LIMIT calls spaced by the cooldown).
DaySeconds == 600
\* The clock stops this many cooldown periods after the first midnight.
MaxPeriods == 20

CooldownTicks == COOLDOWN_SECONDS * TicksPerSecond
DayTicks == DaySeconds * TicksPerSecond
\* The session is created on the last tick before a midnight.
StartTick == DayTicks - 1
MaxNow == DayTicks + MaxPeriods * CooldownTicks

\* datetime.now().date() at clock value t
Date(t) == t \div DayTicks

\* Python's int() of the float num/den: truncation toward zero.
PyInt(num, den) ==
    IF num >= 0 THEN num \div den ELSE -((-num) \div den)


\* ------------------------------------------------------------ text helpers
\* str.replace(c, r) for a one-character pattern c.
RECURSIVE Replace(_, _, _)
Replace(s, c, r) ==
    IF s = <<>> THEN <<>>
    ELSE (IF Head(s) = c THEN r ELSE <<Head(s)>>) \o Replace(Tail(s), c, r)

\* "x in s" for a one-character x.
HasChar(s, c) == \E i \in 1..Len(s) : s[i] = c

\* s[:n]
Take(s, n) == SubSeq(s, 1, IF Len(s) < n THEN Len(s) ELSE n)

\* str.strip(): leading and trailing blanks removed.
RECURSIVE LStrip(_)
LStrip(s) == IF s # <<>> /\ Head(s) = " " THEN LStrip(Tail(s)) ELSE s
RECURSIVE RStrip(_)
RStrip(s) ==
    IF s # <<>> /\ s[Len(s)] = " " THEN RStrip(SubSeq(s, 1, Len(s) - 1)) ELSE s
Strip(s) == RStrip(LStrip(s))

\* sanitize_input (lines 119-122)
\* BQ stands for the backquote character.
BQ == "bq"
SANITIZE_REMOVED == {"<", ">", "{", "}", "[", "]", BQ, "'", "\""}
sanitize_input(text) ==
    IF text = <<>> THEN <<>>
    ELSE Strip(SelectSeq(Take(text, 100), LAMBDA c : c \notin SANITIZE_REMOVED))

\* ------------------------------------------------- the Summarizer (179-240)
\* Strings the Summarizer returns.  The literal parts the program never looks
\* into are kept as one element; "[X]" stands for the cross-mark character
\* and "[!]" for the warning sign.
FAILED_MSG == <<"[X]", " AI Processing Failed. ...">>
NO_KEY_MSG == <<"[!]", " Please provide a Gemini API Key in the sidebar.">>
AnalysedBy(model_name) ==
    <<"*(Analysed by: ", BQ>> \o model_name \o <<BQ, ")*\n\n">>

MODES == {"General", "Executive", "Brief", "Dashboard", "Social"}

\* m.name.replace("models/", "")
StripModelsPrefix(name) == SelectSeq(name, LAMBDA a : a # "models/")

PREFERRED == << <<"gemini-2.5-flash">>, <<"gemini-1.5-flash">>, <<"gemini-1.5-pro">> >>

SeqRange(s) == {s[i] : i \in 1..Len(s)}

\* [f(x) for x in s]
RECURSIVE MapStrip(_)
MapStrip(listing) ==
    IF listing = <<>> THEN <<>>
    ELSE <<StripModelsPrefix(Head(listing).name)>> \o MapStrip(Tail(listing))

\* line 182
available_models(listing) ==
    MapStrip(SelectSeq(listing,
                       LAMBDA m : "generateContent" \in m.supported_generation_methods))

\* line 184
models_to_try(listing) ==
    LET avail == available_models(listing) IN
    SelectSeq(PREFERRED, LAMBDA m : m \in SeqRange(avail))
        \o SelectSeq(avail, LAMBDA m : m \notin SeqRange(PREFERRED))

\* line 236: response.text.replace("<", "&lt;").replace(">", "&gt;")
EscapeText(text) ==
    Replace(Replace(text, "<", <<"&", "l", "t", ";">>), ">", <<"&", "g", "t", ";">>)

\* The loop without its return: every candidate is tried and the last
\* success wins.
RECURSIVE TryModels_no_return(_, _, _, _)
TryModels_no_return(models, i, mode, gen) ==
    IF i > Len(models)
    THEN [value |-> FAILED_MSG, attempts |-> models, by |-> 0]
    ELSE LET rest == TryModels_no_return(models, i + 1, mode, gen) IN
         IF rest.by # 0 \/ ~gen[models[i]].ok THEN rest
         ELSE [value |-> IF mode = "Dashboard"
                         THEN gen[models[i]].text
                         ELSE AnalysedBy(models[i]) \o EscapeText(gen[models[i]].text),
               attempts |-> models,
               by |-> i]

\* The loop of lines 230-240 from candidate i on.  gen[m] is what the
\* provider does for model m: [ok |-> FALSE] when GenerativeModel,
\* generate_content or response.text raises, else the response text.
RECURSIVE TryModels(_, _, _, _)
TryModels(models, i, mode, gen) ==
    IF i > Len(models)
    THEN [value |-> FAILED_MSG, attempts |-> models, by |-> 0]
    ELSE IF gen[models[i]].ok
         THEN [value |-> IF mode = "Dashboard"
                         THEN gen[models[i]].text
                         ELSE AnalysedBy(models[i]) \o EscapeText(gen[models[i]].text),
               attempts |-> SubSeq(models, 1, i),
               by |-> i]
         ELSE TryModels(models, i + 1, mode, gen)

\* The body of _get_ai_response against a provider that answers list_models
\* with prov.listing (or raises when prov.list_ok is FALSE) and generation
\* requests with prov.gen.  raised: the call ends with an exception.
get_ai_response(mode, prov) ==
    IF ~prov.list_ok
    THEN [raised |-> TRUE, value |-> <<>>, attempts |-> <<>>, by |-> 0,
          requests |-> 1]
    ELSE LET r == TryModels(models_to_try(prov.listing), 1, mode, prov.gen) IN
         [raised |-> FALSE, value |-> r.value, attempts |-> r.attempts,
          by |-> r.by, requests |-> 1 + Len(r.attempts)]

\* json.loads(raw) over the characters the model's texts are made of:
\* "dict" for an object, "other" for another JSON value, "error" for
\* JSONDecodeError.
JsonLoads(raw) ==
    IF raw = <<"{", "}">> THEN "dict"
    ELSE IF /\ Len(raw) >= 2
            /\ raw[1] = "\"" /\ raw[Len(raw)] = "\""
            /\ \A i \in 2..(Len(raw) - 1) : Len(raw[i]) = 1 /\ raw[i] # "\""
         THEN "other"
         ELSE "error"


\* ------------------------------------------------- fetch_trends (140-175)
UPPER == <<"A", "B", "C", "D", "E", "F", "G", "H", "I", "J", "K", "L", "M", "N", "O", "P", "Q", "R", "S", "T", "U", "V", "W", "X", "Y", "Z">>
LOWER == <<"a", "b", "c", "d", "e", "f", "g", "h", "i", "j", "k", "l", "m", "n", "o", "p", "q", "r", "s", "t", "u", "v", "w", "x", "y", "z">>
LowerChar(c) ==
    IF \E i \in 1..Len(UPPER) : UPPER[i] = c
    THEN LOWER[CHOOSE i \in 1..Len(UPPER) : UPPER[i] = c]
    ELSE c
\* str.lower()
Lower(s) == [i \in 1..Len(s) |-> LowerChar(s[i])]

\* "q in h" for strings
Contains(h, q) ==
    \E i \in 0..(Len(h) - Len(q)) : SubSeq(h, i + 1, i + Len(q)) = q

\* Deduplication that keeps the last occurrence of each element.
RECURSIVE Dedup_keep_last(_)
Dedup_keep_last(s) ==
    IF s = <<>> THEN <<>>
    ELSE IF \E k \in 2..Len(s) : s[k] = Head(s)
         THEN Dedup_keep_last(Tail(s))
         ELSE <<Head(s)>> \o Dedup_keep_last(Tail(s))

\* list(dict.fromkeys(s)): the first occurrence of each element, in order.
RECURSIVE Dedup(_)
Dedup(s) ==
    IF s = <<>> THEN <<>>
    ELSE LET front == Dedup(SubSeq(s, 1, Len(s) - 1))
             last == s[Len(s)] IN
         IF last \in SeqRange(front) THEN front ELSE Append(front, last)

BAKERY_URL == "https://www.bakeryandsnacks.com/Trends"
COFFEE_URL == "https://www.worldcoffeeportal.com/News"

\* line 159
ignore_list ==
    << <<"p", "r", "i", "v", "a", "c", "y">>,
       <<"c", "o", "o", "k", "i", "e">>,
       <<"s", "u", "b", "s", "c", "r", "i", "b", "e">>,
       <<"t", "e", "r", "m", "s">>,
       <<"c", "o", "n", "t", "a", "c", "t">>,
       <<"a", "b", "o", "u", "t", " ", "u", "s">>,
       <<"a", "d", "v", "e", "r", "t", "i", "s", "e">>,
       <<"s", "i", "g", "n", " ", "i", "n">> >>

MIN_LEN == 40
MAX_LEN == 160

\* lines 144-145
Sources(category) ==
    (IF category \in {"Bakery", "Both"} THEN <<BAKERY_URL>> ELSE <<>>)
        \o (IF category \in {"Coffee", "Both"} THEN <<COFFEE_URL>> ELSE <<>>)

\* lines 157-162: the test one scraped item's stripped text has to pass.
KeepItem(text) ==
    /\ MIN_LEN < Len(text) /\ Len(text) < MAX_LEN
    /\ ~\E k \in 1..Len(ignore_list) : Contains(Lower(text), ignore_list[k])

\* lines 150-164 for one source: nothing when the request raises
\* RequestException, else the kept texts of the page's h2/h3/h4/a elements.
ScrapeSource(resp) ==
    IF ~resp.ok THEN <<>>
    ELSE SelectSeq([i \in 1..Len(resp.items) |-> Strip(resp.items[i])], KeepItem)

\* lines 149-164: all_headlines after the loop over the sources.
RECURSIVE ScrapeAll(_, _)
ScrapeAll(sources, net) ==
    IF sources = <<>> THEN <<>>
    ELSE ScrapeSource(net[Head(sources)]) \o ScrapeAll(Tail(sources), net)

\* The search without its fallback: an empty filter result is returned.
SearchAndCap_no_fallback(unique_all, search_query) ==
    IF search_query # <<>>
    THEN LET filtered == SelectSeq(unique_all,
                 LAMBDA h : Contains(Lower(h), Lower(search_query))) IN
         <<Take(filtered, MAX_HEADLINES), filtered # <<>> >>
    ELSE <<Take(unique_all, MAX_HEADLINES), TRUE>>

\* lines 168-175 on the deduplicated list
SearchAndCap(unique_all, search_query) ==
    IF search_query # <<>>
    THEN LET filtered == SelectSeq(unique_all,
                 LAMBDA h : Contains(Lower(h), Lower(search_query))) IN
         IF filtered # <<>>
         THEN <<Take(filtered, MAX_HEADLINES), TRUE>>
         ELSE <<Take(unique_all, MAX_HEADLINES), FALSE>>
    ELSE <<Take(unique_all, MAX_HEADLINES), TRUE>>

\* The body of fetch_trends; net[url] is what the site answers.
fetch_trends(category, search_query, net) ==
    SearchAndCap(Dedup(ScrapeAll(Sources(category), net)), search_query)


\* "\n- ".join(news_list)
RECURSIVE Join(_)
Join(news_list) ==
    IF news_list = <<>> THEN <<>>
    ELSE IF Len(news_list) = 1 THEN Head(news_list)
    ELSE Head(news_list) \o <<"\n", "-", " ">> \o Join(Tail(news_list))

ACCESS_PASSWORD == "bakery2026"

\* The analysis mode of the tabs 2..6 (lines 332, 347, 362, 377, 419).
TabMode == [t \in 2..6 |->
    CASE t = 2 -> "General"
      [] t = 3 -> "Executive"
      [] t = 4 -> "Brief"
      [] t = 5 -> "Dashboard"
      [] t = 6 -> "Social"]
FirstTab == 2
LastTab == 6

VARIABLES
    now,             \* the wall clock, in ticks
    last_ai_time,    \* st.session_state.last_ai_time, in ticks
    daily_ai_count,  \* st.session_state.daily_ai_count
    request_date,    \* st.session_state.request_date
    news,            \* st.session_state['news_data']: [has, data]
    fetch_cache,     \* st.cache_data of fetch_trends: {[key, value]}
    ai_cache,        \* st.cache_data of _get_ai_response: {[key, value]}
    api_key_input,   \* sidebar: the configured credential ("" when missing)
    user_pass,       \* sidebar: the typed access password
    user_focus,      \* sidebar: the sanitized focus text
    category_choice, \* sidebar: the market domain
    pc,              \* position of the script run
    tab,             \* the tab whose handler runs (2..6), 0 outside the tabs
    event,           \* TRUE while the button press that started the rerun
                     \* has not been taken by a button
    allowed,         \* local "allowed" of the current tab handler
    msg,             \* local "msg" of the current tab handler
    shown,           \* what the pressed button's handler rendered in this run
    call,            \* how the analyze_trends call of this run went
    requests,        \* requests sent to the LLM provider in this run
    today_calls,     \* history: [day, n, at]: n counted analyze calls were made
                     \* on clock day "day", the last of them at time "at"
    fin,             \* fetch_trends under test: its arguments and the sites
    fout,            \* fetch_trends under test: [done, value]
    sin,             \* Summarizer under test: the mode and the provider
    sout             \* Summarizer under test: [done, result]

quota == <<last_ai_time, daily_ai_count, request_date>>
sidebar == <<api_key_input, user_pass, user_focus, category_choice>>
caches == <<fetch_cache, ai_cache>>
locals == <<allowed, msg>>
under_test == <<fin, fout, sin, sout>>
vars == <<now, quota, news, caches, sidebar, pc, tab, event, locals, shown,
          call, requests, today_calls, under_test>>

\* ------------------------------------------------------------ the messages
QUOTA_MSG == [text |-> "[X] daily AI quota used up (20 per day)", remain |-> 0]
COOLDOWN_MSG(remain) ==
    [text |-> "[wait] please wait {remain} seconds", remain |-> remain]
NO_MSG == [text |-> "", remain |-> 0]

\* check_ai_allowance with the cooldown compared by <= instead of <.
check_ai_allowance_inclusive ==
    IF daily_ai_count >= DAILY_AI_LIMIT
    THEN <<FALSE, QUOTA_MSG>>
    ELSE LET elapsed == now - last_ai_time IN
         IF elapsed <= CooldownTicks
         THEN <<FALSE, COOLDOWN_MSG(PyInt(CooldownTicks - elapsed, TicksPerSecond))>>
         ELSE <<TRUE, NO_MSG>>

\* check_ai_allowance(): reads the session state and the clock, writes nothing.
check_ai_allowance ==
    IF daily_ai_count >= DAILY_AI_LIMIT
    THEN <<FALSE, QUOTA_MSG>>
    ELSE LET elapsed == now - last_ai_time IN
         IF elapsed < CooldownTicks
         THEN <<FALSE, COOLDOWN_MSG(PyInt(CooldownTicks - elapsed, TicksPerSecond))>>
         ELSE <<TRUE, NO_MSG>>

NOTHING == [kind |-> "none", body |-> <<>>]

\* ------------------------------------------------------------ the session
Filler == [i \in 1..MIN_LEN |-> "x"]

\* What the two sites answer during a session: one headline, or no answer.
SiteUp == [ok |-> TRUE, items |-> << <<"L", "a", "t", "t", "e">> \o Filler >>]
SiteDown == [ok |-> FALSE, items |-> <<>>]
SessionNets ==
    { [u \in {BAKERY_URL, COFFEE_URL} |-> IF u = BAKERY_URL THEN SiteUp ELSE SiteDown] }

InitSession ==
    /\ now = StartTick
    /\ last_ai_time = 0
    /\ daily_ai_count = 0
    /\ request_date = Date(StartTick)
    /\ news = [has |-> FALSE, data |-> <<>>]
    /\ fetch_cache = {}
    /\ ai_cache = {}
    /\ api_key_input \in {"", "key"}
    /\ user_pass = ""
    /\ user_focus = <<>>
    /\ category_choice = "Both"
    /\ pc = "idle"
    /\ tab = 0
    /\ event = FALSE
    /\ allowed = FALSE
    /\ msg = NO_MSG
    /\ shown = NOTHING
    /\ call = "none"
    /\ requests = 0
    /\ today_calls = [day |-> Date(StartTick), n |-> 0, at |-> 0]

IdleUnderTest ==
    /\ fin = [category |-> "Both", search_query |-> <<>>, net |-> <<>>]
    /\ fout = [done |-> FALSE, value |-> <<>>]
    /\ sin = [mode |-> "General", prov |-> <<>>]
    /\ sout = [done |-> FALSE, result |-> <<>>]

Init == InitSession /\ IdleUnderTest

\* The script run ends: its locals are gone.
EndRun ==
    /\ pc' = "idle"
    /\ tab' = 0
    /\ allowed' = FALSE
    /\ msg' = NO_MSG

NextTab ==
    IF tab = LastTab
    THEN EndRun
    ELSE pc' = "check" /\ tab' = tab + 1 /\ UNCHANGED locals

\* Time passes: between reruns, and inside a rerun while the headlines are
\* fetched (before the first allowance check) and while the analysis runs
\* (before the allowance checks of the tabs after it).  The clock is read
\* just before and just after a multiple of the cooldown.
Tick(d, limit) ==
    /\ pc = "idle" \/ (pc = "check" /\ (tab = FirstTab \/ call # "none"))
    /\ now + d <= limit
    /\ (now + d - DayTicks) % CooldownTicks \in {0, CooldownTicks - 1}
    /\ now' = now + d
    /\ UNCHANGED <<quota, news, caches, sidebar, pc, tab, event, locals, shown,
                   call, requests, today_calls, under_test>>

\* The user types the access password into the sidebar.
TypePassword(p) ==
    /\ pc = "idle"
    /\ user_pass # p
    /\ user_pass' = p
    /\ UNCHANGED <<now, quota, news, caches, api_key_input, user_focus,
                   category_choice, pc, tab, event, locals, shown, call,
                   requests, today_calls, under_test>>

\* A widget interaction starts a rerun of the script; press: it is a button.
Rerun(press) ==
    /\ pc = "idle"
    /\ pc' = "top"
    /\ event' = press
    /\ shown' = NOTHING
    /\ call' = "none"
    /\ requests' = 0
    /\ UNCHANGED <<now, quota, news, caches, sidebar, tab, locals,
                   today_calls, under_test>>

\* Lines 35-47: the daily reset at the top of the script.
ScriptTop ==
    /\ pc = "top"
    /\ IF request_date # Date(now)
       THEN /\ daily_ai_count' = 0
            /\ request_date' = Date(now)
       ELSE UNCHANGED <<daily_ai_count, request_date>>
    /\ pc' = "tab1"
    /\ UNCHANGED <<now, last_ai_time, news, caches, sidebar, tab, event, locals,
                   shown, call, requests, today_calls, under_test>>

\* fetch_trends behind st.cache_data: the stored value on a hit.
CachedFetch(category, search_query, net) ==
    LET key == <<category, search_query>> IN
    IF \E e \in fetch_cache : e.key = key
    THEN (CHOOSE e \in fetch_cache : e.key = key).value
    ELSE fetch_trends(category, search_query, net)

\* Lines 308-320: the headlines tab.  The tabs 2..6 do their work only once
\* 'news_data' is in the session state.
Tab1(pressed, net) ==
    /\ pc = "tab1"
    /\ IF pressed /\ event
       THEN LET r == CachedFetch(category_choice, user_focus, net) IN
            /\ news' = [has |-> TRUE, data |-> r[1]]
            /\ fetch_cache' = fetch_cache \cup
                   {[key |-> <<category_choice, user_focus>>, value |-> r]}
            /\ event' = FALSE
            /\ shown' = [kind |-> IF user_focus # <<>> /\ ~r[2] THEN "warning"
                                  ELSE IF r[1] # <<>> THEN "success" ELSE "none",
                         body |-> <<>>]
       ELSE UNCHANGED <<news, fetch_cache, event, shown>>
    /\ IF news'.has
       THEN pc' = "check" /\ tab' = FirstTab /\ UNCHANGED locals
       ELSE EndRun
    /\ UNCHANGED <<now, quota, ai_cache, sidebar, call, requests,
                   today_calls, under_test>>

\* allowed, msg = check_ai_allowance() of a tab handler.
TabCheck ==
    /\ pc = "check"
    /\ allowed' = check_ai_allowance[1]
    /\ msg' = check_ai_allowance[2]
    /\ pc' = "button"
    /\ UNCHANGED <<now, quota, news, caches, sidebar, tab, event, shown, call,
                   requests, today_calls, under_test>>

\* analyze_trends with the bookkeeping moved into the cached function: a
\* call served from the response cache is not counted.
analyze_trends_counting_misses(api_key, news_list, focus_topic, mode, prov) ==
    IF api_key = ""
    THEN [counted |-> FALSE, raised |-> FALSE, value |-> NO_KEY_MSG,
          call |-> "nokey", requests |-> 0, store |-> {}]
    ELSE LET key == <<api_key, Join(news_list), sanitize_input(focus_topic), mode>> IN
         IF \E e \in ai_cache : e.key = key
         THEN [counted |-> FALSE, raised |-> FALSE,
               value |-> (CHOOSE e \in ai_cache : e.key = key).value,
               call |-> "hit", requests |-> 0, store |-> {}]
         ELSE LET r == get_ai_response(mode, prov) IN
              [counted |-> TRUE, raised |-> r.raised, value |-> r.value,
               call |-> IF r.raised THEN "raised"
                        ELSE IF r.by = 0 THEN "failed" ELSE "success",
               requests |-> r.requests,
               store |-> IF r.raised THEN {}
                         ELSE {[key |-> key, value |-> r.value]}]

\* analyze_trends (lines 242-254) with _get_ai_response behind st.cache_data:
\* what the call does, as a record.  counted: lines 250-251 were executed;
\* store: what the call adds to the response cache (an exception stores
\* nothing); requests: the requests it sends to the provider.
analyze_trends(api_key, news_list, focus_topic, mode, prov) ==
    IF api_key = ""
    THEN [counted |-> FALSE, raised |-> FALSE, value |-> NO_KEY_MSG,
          call |-> "nokey", requests |-> 0, store |-> {}]
    ELSE LET context == Join(news_list)
             safe_focus == sanitize_input(focus_topic)
             key == <<api_key, context, safe_focus, mode>> IN
         IF \E e \in ai_cache : e.key = key
         THEN [counted |-> TRUE, raised |-> FALSE,
               value |-> (CHOOSE e \in ai_cache : e.key = key).value,
               call |-> "hit", requests |-> 0, store |-> {}]
         ELSE LET r == get_ai_response(mode, prov) IN
              [counted |-> TRUE, raised |-> r.raised, value |-> r.value,
               call |-> IF r.raised THEN "raised"
                        ELSE IF r.by = 0 THEN "failed" ELSE "success",
               requests |-> r.requests,
               store |-> IF r.raised THEN {}
                         ELSE {[key |-> key, value |-> r.value]}]

COULD_NOT_STRUCTURE == <<"AI could not structure visual data securely. Please try again.">>

\* What a tab's handler renders for the string analyze_trends returned:
\* tabs 2, 3, 4 and 6 put it in a card; tab 5 (lines 378-402) shows it as an
\* error when it holds the cross mark, else parses it as JSON.
Render(t, value) ==
    IF t # 5 THEN [kind |-> "card", body |-> value]
    ELSE IF HasChar(value, "[X]") THEN [kind |-> "error", body |-> value]
    ELSE CASE JsonLoads(value) = "dict" -> [kind |-> "metrics", body |-> value]
           [] JsonLoads(value) = "error" ->
                  [kind |-> "error", body |-> COULD_NOT_STRUCTURE]
           [] OTHER -> [kind |-> "exception", body |-> <<>>]

EXCEPTION == [kind |-> "exception", body |-> <<>>]

\* The rest of a tab handler after the allowance check (e.g. lines 327-335):
\* if st.button(..., disabled=not allowed): analyze_trends(...) and render.
\* A disabled button is not pressed.  An exception that leaves the handler
\* ends the script run.
TabButton(pressed, prov) ==
    /\ pc = "button"
    /\ IF user_pass = ACCESS_PASSWORD /\ pressed /\ event /\ allowed
       THEN LET a == analyze_trends(api_key_input, news.data, user_focus,
                                    TabMode[tab], prov)
                out == IF a.raised THEN EXCEPTION ELSE Render(tab, a.value) IN
            /\ IF a.counted
               THEN /\ last_ai_time' = now
                    /\ daily_ai_count' = daily_ai_count + 1
                    /\ today_calls' =
                         IF today_calls.day = Date(now)
                         THEN [day |-> Date(now), n |-> today_calls.n + 1,
                               at |-> now]
                         ELSE [day |-> Date(now), n |-> 1, at |-> now]
               ELSE UNCHANGED <<last_ai_time, daily_ai_count, today_calls>>
            /\ ai_cache' = ai_cache \cup a.store
            /\ event' = FALSE
            /\ call' = a.call
            /\ requests' = requests + a.requests
            /\ shown' = out
            /\ IF out.kind = "exception" THEN EndRun ELSE NextTab
       ELSE /\ UNCHANGED <<last_ai_time, daily_ai_count, today_calls, ai_cache,
                           event, call, requests, shown>>
            /\ NextTab
    /\ UNCHANGED <<now, request_date, news, fetch_cache, sidebar, under_test>>

\* ------------------------------------------------- the provider's answers
ModelEntry(id, methods) ==
    [name |-> <<"models/">> \o id, supported_generation_methods |-> methods]
FLASH15 == <<"gemini-1.5-flash">>

\* One generative model is listed; it answers with text, or fails.
ProvOne(ok, text) ==
    [list_ok |-> TRUE,
     listing |-> <<ModelEntry(FLASH15, {"generateContent"})>>,
     gen |-> [m \in {FLASH15} |-> [ok |-> ok, text |-> text]]]
\* list_models raises (no network, a rejected key).
ProvDown == [list_ok |-> FALSE, listing |-> <<>>, gen |-> <<>>]

QuotaProviders == {ProvOne(TRUE, <<"{", "}">>)}
\* The buttons the user presses in the long sessions of Spec.
QuotaTabs == {3}

Next ==
    \/ \E d \in {1, CooldownTicks - 1} : Tick(d, MaxNow)
    \/ TypePassword(ACCESS_PASSWORD)
    \/ \E press \in BOOLEAN : Rerun(press)
    \/ ScriptTop
    \/ \E pressed \in BOOLEAN, net \in SessionNets : Tab1(pressed, net)
    \/ TabCheck
    \/ \E pressed \in BOOLEAN, prov \in QuotaProviders :
           TabButton(pressed /\ tab \in QuotaTabs, prov)

Spec == Init /\ [][Next]_vars

\* ------------------------------------------- short sessions, every button
\* The clock of the short sessions stops this many cooldown periods after
\* the session's start.
MaxModesPeriods == 1
PRO15 == <<"gemini-1.5-pro">>
\* Two generative models are listed; the preferred order puts FLASH15 first.
ProvTwo(ok1, ok2, text) ==
    [list_ok |-> TRUE,
     listing |-> <<ModelEntry(PRO15, {"generateContent"}),
                   ModelEntry(FLASH15, {"generateContent"})>>,
     gen |-> [m \in {FLASH15, PRO15} |->
                 [ok |-> IF m = FLASH15 THEN ok1 ELSE ok2, text |-> text]]]

ModesProviders ==
    {ProvDown, ProvOne(FALSE, <<>>), ProvOne(TRUE, <<"{", "}">>),
     ProvOne(TRUE, <<"<", "a", ">">>), ProvTwo(FALSE, TRUE, <<"\"", "a", "\"">>)}

NextModes ==
    \/ Tick(CooldownTicks, StartTick + MaxModesPeriods * CooldownTicks)
    \/ \E p \in {"", ACCESS_PASSWORD} : TypePassword(p)
    \/ \E press \in BOOLEAN : Rerun(press)
    \/ ScriptTop
    \/ \E pressed \in BOOLEAN, net \in SessionNets : Tab1(pressed, net)
    \/ TabCheck
    \/ \E pressed \in BOOLEAN, prov \in ModesProviders : TabButton(pressed, prov)

SpecModes == Init /\ [][NextModes]_vars

\* ----------------------------------------------------------- quota claims
\* An allowance check has just returned (allowed, msg) at clock value now.
Checked == pc = "button"
\* Counted analyze calls made so far on the calendar day of the clock.
CallsToday == IF today_calls.day = Date(now) THEN today_calls.n ELSE 0
IsCooldownMsg == msg.text = COOLDOWN_MSG(0).text

\* C1: once DAILY_AI_LIMIT counted analyze calls have been made on the
\* current calendar day, every allowance check made on that day returns
\* (False, the quota message), whatever the time since the last call.
C1_QuotaExhausted ==
    (Checked /\ CallsToday >= DAILY_AI_LIMIT) => (~allowed /\ msg = QUOTA_MSG)

\* C3: after a counted analyze call at time t, an allowance check made at
\* t' while daily_ai_count is below the cap returns (False, the cooldown
\* message) if t' - t < COOLDOWN_SECONDS and (True, "") otherwise; t is the
\* latest such call.
C3_Cooldown ==
    (Checked /\ today_calls.n > 0 /\ daily_ai_count < DAILY_AI_LIMIT) =>
        IF now - today_calls.at < COOLDOWN_SECONDS * TicksPerSecond
        THEN ~allowed /\ IsCooldownMsg
        ELSE allowed /\ msg = NO_MSG
\* An allowance check exactly COOLDOWN_SECONDS after a counted call passes.
C3_Witness ==
    /\ Checked /\ today_calls.n > 0 /\ daily_ai_count < DAILY_AI_LIMIT
    /\ now - today_calls.at = COOLDOWN_SECONDS * TicksPerSecond
    /\ allowed

\* C4: whenever the allowance check is evaluated, the stored day is the
\* current date (a differing date has reset the counter first), and the
\* quota message is never returned on a date on which the cap has not been
\* reached.
C4_ResetBeforeCap ==
    Checked => /\ request_date = Date(now)
               /\ (msg = QUOTA_MSG => CallsToday >= DAILY_AI_LIMIT)
\* The consequence alone: the quota message is never returned on a date on
\* which fewer than DAILY_AI_LIMIT calls have been made.
C4_NoStaleDenial ==
    (Checked /\ msg = QUOTA_MSG) => CallsToday >= DAILY_AI_LIMIT

\* C10: the seconds N of a cooldown denial are the ceiling of the remaining
\* wait: N is at least 1, and waiting N seconds makes the next check pass.
C10_CeilingOfRemaining ==
    (Checked /\ ~allowed /\ IsCooldownMsg) =>
        LET remaining == COOLDOWN_SECONDS * TicksPerSecond - (now - last_ai_time) IN
        /\ msg.remain * TicksPerSecond >= remaining
        /\ (msg.remain - 1) * TicksPerSecond < remaining
        /\ msg.remain >= 1

\* ------------------------------------------------- claims on the analysis
REACHED_SUMMARIZER == {"success", "failed", "hit", "raised"}
\* The step is an analyze_trends call that goes on to _get_ai_response.
SummarizerCall == call = "none" /\ call' \in REACHED_SUMMARIZER

\* C2: an allowance check leaves last_ai_time, daily_ai_count and
\* request_date as they are; an analyze_trends call that reaches the
\* Summarizer (the model answers, every candidate fails, list_models raises,
\* or the response cache answers) adds exactly 1 to daily_ai_count and sets
\* last_ai_time to the clock; nothing else adds to daily_ai_count.
C2_CountedOncePerCall ==
    [][ /\ (pc = "check" /\ pc' = "button") => UNCHANGED quota
        /\ SummarizerCall => (/\ daily_ai_count' = daily_ai_count + 1
                              /\ last_ai_time' = now)
        /\ (daily_ai_count' > daily_ai_count) => SummarizerCall ]_vars
\* A call answered by the response cache has been counted.
C2_Witness ==
    call = "hit" /\ requests = 0 /\ daily_ai_count = 1 /\ last_ai_time = now

\* C7: when the credential is missing, the pressed button's handler shows
\* the prompt to supply an API key, in every analysis mode, and sends no
\* request to the provider.
C7_MissingKeyPrompt ==
    call = "nokey" => (shown.body = NO_KEY_MSG /\ requests = 0)

\* --------------------------------------- the Summarizer as a pure function
\* The provider's catalogue: the three preferred models, one other
\* generative model, one model that cannot generate.
FLASH25 == <<"gemini-2.5-flash">>
GEMPRO == <<"gemini-pro">>
EMBED == <<"embedding-001">>
Catalog ==
    {ModelEntry(FLASH25, {"generateContent"}),
     ModelEntry(FLASH15, {"generateContent", "countTokens"}),
     ModelEntry(PRO15, {"generateContent"}),
     ModelEntry(GEMPRO, {"generateContent"}),
     ModelEntry(EMBED, {"embedContent"})}
GenIds == {FLASH25, FLASH15, PRO15, GEMPRO}
\* The text each model answers with when it answers.
AnswerOf(m) ==
    CASE m = FLASH25 -> <<"{", "}">>
      [] m = FLASH15 -> <<"<", "b", ">">>
      [] m = PRO15 -> <<"\"", "a", "\"">>
      [] OTHER -> <<"a", "{", "'">>
\* list_models answers with at most this many models.
MaxListing == 4
Listings == UNION {[1..n -> Catalog] : n \in 0..MaxListing}
SummProviders ==
    {ProvDown} \cup
    {[list_ok |-> TRUE, listing |-> l,
      gen |-> [m \in GenIds |-> [ok |-> m \in good, text |-> AnswerOf(m)]]] :
        l \in Listings, good \in SUBSET GenIds}

InitSummarizer ==
    /\ InitSession
    /\ api_key_input = "key"
    /\ fin = [category |-> "Both", search_query |-> <<>>, net |-> <<>>]
    /\ fout = [done |-> FALSE, value |-> <<>>]
    /\ sin \in [mode : MODES, prov : SummProviders]
    /\ sout = [done |-> FALSE, result |-> <<>>]

Summarize ==
    /\ ~sout.done
    /\ sout' = [done |-> TRUE, result |-> get_ai_response(sin.mode, sin.prov)]
    /\ UNCHANGED <<now, quota, news, caches, sidebar, pc, tab, event, locals,
                   shown, call, requests, today_calls, fin, fout, sin>>

SpecSummarizer == InitSummarizer /\ [][Summarize]_vars

\* The ordered candidate list of the invocation under test.
Candidates == models_to_try(sin.prov.listing)
Answers(i) == sin.prov.gen[Candidates[i]].ok
SomeAnswer == \E i \in 1..Len(Candidates) : Answers(i)
\* N + 1: the first candidate that answers.
FirstAnswer ==
    CHOOSE i \in 1..Len(Candidates) :
        Answers(i) /\ \A j \in 1..(i - 1) : ~Answers(j)

\* C5: when the first N candidates fail and candidate N+1 answers, the
\* result is built from candidate N+1's text (the text itself in Dashboard
\* mode, else the "Analysed by" line naming N+1 followed by its escaped
\* text), and the attempts are exactly candidates 1..N+1 in list order.
C5_FallbackOrder ==
    (sout.done /\ sin.prov.list_ok /\ SomeAnswer) =>
        LET m == Candidates[FirstAnswer]
            text == sin.prov.gen[m].text IN
        /\ ~sout.result.raised
        /\ sout.result.attempts = SubSeq(Candidates, 1, FirstAnswer)
        /\ sout.result.value =
               IF sin.mode = "Dashboard" THEN text
               ELSE AnalysedBy(m) \o EscapeText(text)
\* Two candidates failed, the third answered, and a fourth that would have
\* answered was left alone.
C5_Witness ==
    /\ sout.done /\ sin.prov.list_ok /\ SomeAnswer
    /\ FirstAnswer = 3
    /\ Len(Candidates) = 4 /\ Answers(4)
    /\ Len(sout.result.attempts) = 3

\* C6: an invocation never ends with an exception, and it returns the
\* "AI Processing Failed" string exactly when every candidate failed.
C6_NoEscape ==
    sout.done =>
        /\ ~sout.result.raised
        /\ (sout.result.value = FAILED_MSG) <=> ~SomeAnswer

\* The characters the presentation layer treats as markup.
HTML_SIGNIFICANT == {"<", ">", "\"", "'", "{", "}"}
\* The part of a successful free-text result that comes from the model: what
\* follows the "Analysed by" line.
ModelPart ==
    LET prefix == AnalysedBy(Candidates[sout.result.by]) IN
    SubSeq(sout.result.value, Len(prefix) + 1, Len(sout.result.value))
FreeTextSuccess ==
    /\ sout.done /\ ~sout.result.raised
    /\ sout.result.by # 0 /\ sin.mode # "Dashboard"

\* C11: in a successful free-text (non-Dashboard) result, the part that
\* comes from the model output holds none of the characters <, >, double
\* quote, single quote, { and }.
C11_NoUnescapedMarkup ==
    FreeTextSuccess =>
        \A i \in 1..Len(ModelPart) : ModelPart[i] \notin HTML_SIGNIFICANT
\* The angle brackets alone: the model part of a successful free-text
\* result holds neither < nor >.
C11_AnglesEscaped ==
    FreeTextSuccess =>
        \A i \in 1..Len(ModelPart) : ModelPart[i] \notin {"<", ">"}

\* ---------------------------------------------- fetch_trends as a function
Chars3 == <<"a", "A", "b">>
\* Headline number n: four letters spelling n in base 3, then the filler.
Headline(n) ==
    <<Chars3[(n % 3) + 1], Chars3[((n \div 3) % 3) + 1],
      Chars3[((n \div 9) % 3) + 1], Chars3[((n \div 27) % 3) + 1]>> \o Filler
HeadlineRange(a, n) == [i \in 1..n |-> Headline(a + i - 1)]
\* The long page holds this many different headlines.
MaxPage == 27
LongPage == HeadlineRange(0, MaxPage) \o HeadlineRange(2, 3)
MixedPage ==
    <<Headline(40), Headline(41), Headline(40),
      <<" ", " ">> \o Headline(80) \o <<" ">>,
      <<"t", "o", "o", " ", "s", "h", "o", "r", "t">>,
      <<"O", "u", "r", " ", "C", "o", "o", "k", "i", "e", " ">> \o Headline(5),
      Headline(7) \o Filler \o Filler \o Filler,
      Headline(41), Headline(3)>>
Responses ==
    {SiteDown, [ok |-> TRUE, items |-> <<>>], [ok |-> TRUE, items |-> MixedPage],
     [ok |-> TRUE, items |-> LongPage]}
Queries == {<<>>, <<"A", "b">>, <<"z">>, <<"B", "B", "B", "b">>}

InitFetch ==
    /\ InitSession
    /\ api_key_input = "key"
    /\ fin \in [category : {"Bakery", "Coffee", "Both"},
                search_query : Queries,
                net : [{BAKERY_URL, COFFEE_URL} -> Responses]]
    /\ fout = [done |-> FALSE, value |-> <<>>]
    /\ sin = [mode |-> "General", prov |-> <<>>]
    /\ sout = [done |-> FALSE, result |-> <<>>]

Fetch ==
    /\ ~fout.done
    /\ fout' = [done |-> TRUE,
                value |-> fetch_trends(fin.category, fin.search_query, fin.net)]
    /\ UNCHANGED <<now, quota, news, caches, sidebar, pc, tab, event, locals,
                   shown, call, requests, today_calls, fin, sin, sout>>

SpecFetch == InitFetch /\ [][Fetch]_vars

\* The stripped texts of all scraped elements, in scraping order.
RECURSIVE ScrapedTexts(_)
ScrapedTexts(sources) ==
    IF sources = <<>> THEN <<>>
    ELSE LET resp == fin.net[Head(sources)] IN
         (IF resp.ok THEN [i \in 1..Len(resp.items) |-> Strip(resp.items[i])]
          ELSE <<>>) \o ScrapedTexts(Tail(sources))
Scraped == ScrapedTexts(Sources(fin.category))
FirstPos(s, x) == CHOOSE i \in 1..Len(s) : s[i] = x /\ \A j \in 1..(i - 1) : s[j] # x
\* The deduplicated headlines of the call under test.
UniqueAll == Dedup(ScrapeAll(Sources(fin.category), fin.net))
Matches(h) == Contains(Lower(h), Lower(fin.search_query))
Matching == SelectSeq(UniqueAll, Matches)
Cap(n) == IF n < MAX_HEADLINES THEN n ELSE MAX_HEADLINES

\* C8 as stated: with a non-empty query, if no deduplicated headline
\* contains the query the result is the deduplicated list cut to 25, is not
\* empty, and exactMatch is False; otherwise the result is the matching
\* headlines cut to 25 and exactMatch is True.
C8_AsStated ==
    (fout.done /\ fin.search_query # <<>>) =>
        IF Matching = <<>>
        THEN /\ fout.value[1] = SubSeq(UniqueAll, 1, Cap(Len(UniqueAll)))
             /\ fout.value[1] # <<>>
             /\ fout.value[2] = FALSE
        ELSE /\ fout.value[1] = SubSeq(Matching, 1, Cap(Len(Matching)))
             /\ \A i \in 1..Len(fout.value[1]) : Matches(fout.value[1][i])
             /\ fout.value[2] = TRUE
\* C8 amended: as stated, but the fallback result is empty exactly when no
\* headline was scraped at all.
C8_SearchFallback ==
    (fout.done /\ fin.search_query # <<>>) =>
        IF Matching = <<>>
        THEN /\ fout.value[1] = SubSeq(UniqueAll, 1, Cap(Len(UniqueAll)))
             /\ (fout.value[1] = <<>>) <=> (UniqueAll = <<>>)
             /\ fout.value[2] = FALSE
        ELSE /\ fout.value[1] = SubSeq(Matching, 1, Cap(Len(Matching)))
             /\ \A i \in 1..Len(fout.value[1]) : Matches(fout.value[1][i])
             /\ fout.value[2] = TRUE
\* A query that matches nothing fell back to more headlines than the cap.
C8_Witness ==
    /\ fout.done /\ fin.search_query # <<>> /\ Matching = <<>>
    /\ Len(UniqueAll) > MAX_HEADLINES
    /\ Len(fout.value[1]) = MAX_HEADLINES /\ fout.value[2] = FALSE

\* C9: the returned list has no two equal headlines, keeps the order of
\* first occurrence in the scraped input, and has at most MAX_HEADLINES
\* entries.
C9_UniqueOrderedCapped ==
    fout.done =>
        LET r == fout.value[1] IN
        /\ \A i, j \in 1..Len(r) : i # j => r[i] # r[j]
        /\ \A i \in 1..Len(r) : r[i] \in SeqRange(Scraped)
        /\ \A i, j \in 1..Len(r) :
               i < j => FirstPos(Scraped, r[i]) < FirstPos(Scraped, r[j])
        /\ Len(r) <= MAX_HEADLINES
\* Both sites answered, a headline was scraped twice, and the cap cut the list.
C9_Witness ==
    /\ fout.done
    /\ fin.category = "Both" /\ fin.net[BAKERY_URL].ok /\ fin.net[COFFEE_URL].ok
    /\ Len(ScrapeAll(Sources(fin.category), fin.net)) > Len(UniqueAll)
    /\ Len(UniqueAll) > MAX_HEADLINES
    /\ Len(fout.value[1]) = MAX_HEADLINES
====
